---- MODULE Spec2Model ----
(***************************************************************************)
(* Model of google_calendar_api/calendar_api_calls.py: the on-disk event   *)
(* cache and fetch path of get_today_events, the wire conversion           *)
(* Event.to_dict and the submission add_event.                             *)
(*                                                                         *)
(* The remote calendar service is the environment: each request's outcome  *)
(* (a response or an error) is an input of the call.  get_credentials()    *)
(* and build() are modelled on their normal return: they construct the     *)
(* credential and the client object and touch neither the cache file nor   *)
(* the calendar service.                                                   *)
(*                                                                         *)
(* Time is in whole seconds.  Wire timestamps are records of the fields    *)
(* the format string '%Y-%m-%dT%H:%M:%S%z' reads; an all-day value has     *)
(* only the date field.  Text that the program builds (display times, the  *)
(* JSON output) is built here character by character as strings.           *)
(***************************************************************************)
EXTENDS Integers, Sequences, FiniteSets, TLC

VARIABLES
    now,        \* time.time(), in seconds
    cache_file, \* events_cache.pkl: [exists, timestamp, event_list]
    local_tz,   \* UTC offset (hours) of the host's local timezone
    call,       \* the call this step completed: what it saw, asked and returned
    served,     \* history: reads served from the current record since its write
    written_at  \* history: the time of the last cache write

vars == <<now, cache_file, local_tz, call, served, written_at>>

----------------------------------------------------------------------------
(* Bounds of the model *)

MaxTime == 722
MaxEvents == 2

(* Program constant *)
CACHE_DURATION == 360

----------------------------------------------------------------------------
(* Input universes *)

\* seconds between two calls, and seconds the remote calls of a fetch take
TickSteps == {CACHE_DURATION - 1, CACHE_DURATION, CACHE_DURATION + 1}
FetchDelays == {0, CACHE_DURATION - 1}
LocalZones == {-7, 0}

\* 2023-05-28T09:00:00-07:00 and friends, as the fields strptime reads
T0900 == [date |-> "2023-05-28", hour |-> 9, minute |-> 0, utcoffset |-> -7]
T1700 == [date |-> "2023-05-28", hour |-> 17, minute |-> 0, utcoffset |-> -7]
T2330 == [date |-> "2023-05-28", hour |-> 23, minute |-> 30, utcoffset |-> 0]
T0005 == [date |-> "2023-05-29", hour |-> 0, minute |-> 5, utcoffset |-> 0]
D0528 == [date |-> "2023-05-28"]
D0529 == [date |-> "2023-05-29"]

RawTimed == [start |-> [dateTime |-> T0900], end |-> [dateTime |-> T1700],
             summary |-> "Standup"]
RawLate == [start |-> [dateTime |-> T2330], end |-> [dateTime |-> T0005],
            summary |-> "Deploy"]
RawAllDay == [start |-> [date |-> D0528], end |-> [date |-> D0529],
              summary |-> "Holiday"]
RawNoSummary == [start |-> [dateTime |-> T0900], end |-> [dateTime |-> T1700]]

\* the events of the day on the remote calendar, in the order the listing
\* gives them (orderBy='startTime')
Agenda == <<RawAllDay, RawTimed, RawNoSummary, RawLate>>

\* the events of Agenda at the positions in S, in Agenda's order
SubAgenda(S) ==
    LET F[i \in 0..Len(Agenda)] ==
            IF i = 0 THEN <<>>
            ELSE IF i \in S THEN Append(F[i - 1], Agenda[i]) ELSE F[i - 1]
    IN  F[Len(Agenda)]

\* what service.events().list(...).execute() can answer
ListOutcomes ==
    {[status |-> "HttpError", items |-> <<>>]}
    \cup {[status |-> "ok", items |-> SubAgenda(S)] :
            S \in {X \in SUBSET (1..Len(Agenda)) : Cardinality(X) <= MaxEvents}}

\* what service.calendars().get(...).execute() can answer
CalendarOutcomes ==
    {[status |-> "HttpError", timeZone |-> ""],
     [status |-> "ok", timeZone |-> "America/Los_Angeles"]}

\* Python's None where a record is expected, and where a string is expected
None == [none |-> TRUE]
NoneStr == "None"

\* the attendees argument: omitted (None) or a list of addresses
AttendeeArgs ==
    {[given |-> FALSE, list |-> <<>>]}
    \cup {[given |-> TRUE, list |-> l] :
            l \in {<<>>, <<"a@example.com">>,
                   <<"lpage@example.com", "sbrin@example.com">>}}

\* the timeZone argument: omitted (None) or an identifier
TimeZoneArgs == {NoneStr, "America/Los_Angeles"}

\* what service.events().insert(...).execute() can answer
InsertOutcomes ==
    {[status |-> "ok", htmlLink |-> "https://calendar/event?eid=1"],
     [status |-> "HttpError", htmlLink |-> ""],
     [status |-> "TransportError", htmlLink |-> ""]}

----------------------------------------------------------------------------
(* Return values and exceptions of a call *)

Return(v) == [kind |-> "return", is_none |-> FALSE, value |-> v, exc |-> ""]
ReturnNone == [kind |-> "return", is_none |-> TRUE, value |-> "", exc |-> ""]
Raise(e) == [kind |-> "raise", is_none |-> FALSE, value |-> "", exc |-> e]

----------------------------------------------------------------------------
(* class Event *)

\* Event.__init__: attendees defaults to the empty list
Event(summary, location, description, start, end, attendees, timeZone) ==
    [summary |-> summary,
     location |-> location,
     description |-> description,
     start |-> start,
     end |-> end,
     attendees |-> IF attendees.given THEN attendees.list ELSE <<>>,
     timeZone |-> timeZone]

\* faulty variant of to_dict: the end object is filled from the start field
to_dict_end_from_start(self) ==
    [summary |-> self.summary,
     location |-> self.location,
     description |-> self.description,
     start |-> [dateTime |-> self.start, timeZone |-> self.timeZone],
     end |-> [dateTime |-> self.start, timeZone |-> self.timeZone],
     attendees |-> [i \in 1..Len(self.attendees) |-> [email |-> self.attendees[i]]]]

\* Event.to_dict: the wire record
to_dict(self) ==
    [summary |-> self.summary,
     location |-> self.location,
     description |-> self.description,
     start |-> [dateTime |-> self.start, timeZone |-> self.timeZone],
     end |-> [dateTime |-> self.end, timeZone |-> self.timeZone],
     attendees |-> [i \in 1..Len(self.attendees) |-> [email |-> self.attendees[i]]]]

\* the arguments a caller may construct an Event with
EventArgs ==
    [summary : {"Test"}, location : {"800 Howard St."},
     description : {"A chance to hear more."},
     start : {T0900}, end : {T1700},
     attendees : AttendeeArgs, timeZone : TimeZoneArgs]

----------------------------------------------------------------------------
(* Event-time normalization: get_today_events, the loop body *)

\* dict.get(key, default)
dict_get(d, key, default) == IF key \in DOMAIN d THEN d[key] ELSE default

\* datetime.strptime(s, '%Y-%m-%dT%H:%M:%S%z'): the exception it raises, "" if none
strptime_exc(s) ==
    IF s = None THEN "TypeError"
    ELSE IF DOMAIN s = {"date", "hour", "minute", "utcoffset"} THEN ""
    ELSE "ValueError"

\* .astimezone(): the same instant on the local clock, as minutes of the day
astimezone(dt, tz) ==
    LET m == (dt.hour - dt.utcoffset + tz) * 60 + dt.minute
    IN  [hour |-> (m % 1440) \div 60, minute |-> (m % 1440) % 60]

Digit == <<"0", "1", "2", "3", "4", "5", "6", "7", "8", "9">>
TwoDigit(n) == Digit[(n \div 10) + 1] \o Digit[(n % 10) + 1]

\* .strftime('%I:%M %p')
strftime(lt) ==
    TwoDigit(((lt.hour + 11) % 12) + 1) \o ":" \o TwoDigit(lt.minute) \o " "
        \o (IF lt.hour < 12 THEN "AM" ELSE "PM")

\* one pass of the loop body: the exception it raises ("" if none) and the triple
LoopBody(event, tz) ==
    LET start == dict_get(event.start, "dateTime", dict_get(event.start, "date", None))
        end == dict_get(event.end, "dateTime", dict_get(event.end, "date", None))
    IN  IF strptime_exc(start) # "" THEN [exc |-> strptime_exc(start), triple |-> <<>>]
        ELSE IF strptime_exc(end) # "" THEN [exc |-> strptime_exc(end), triple |-> <<>>]
        ELSE IF "summary" \notin DOMAIN event THEN [exc |-> "KeyError", triple |-> <<>>]
        ELSE [exc |-> "",
              triple |-> <<strftime(astimezone(start, tz)),
                           strftime(astimezone(end, tz)),
                           event.summary>>]

\* for event in events: ... event_list.append(...), from event i on
RECURSIVE Loop(_, _, _, _)
Loop(events, i, event_list, tz) ==
    IF i > Len(events) THEN [exc |-> "", event_list |-> event_list]
    ELSE LET b == LoopBody(events[i], tz)
         IN  IF b.exc # "" THEN [exc |-> b.exc, event_list |-> event_list]
             ELSE Loop(events, i + 1, Append(event_list, b.triple), tz)

----------------------------------------------------------------------------
(* json.dumps and print of a list of (start, end, summary) tuples *)

Quote(s) == "\"" \o s \o "\""
SingleQuote(s) == "'" \o s \o "'"

RECURSIVE JoinFrom(_, _)
JoinFrom(parts, i) ==
    IF i > Len(parts) THEN ""
    ELSE IF i = Len(parts) THEN parts[i]
    ELSE parts[i] \o ", " \o JoinFrom(parts, i + 1)

json_array(parts) == "[" \o JoinFrom(parts, 1) \o "]"

json_dumps(event_list) ==
    json_array([i \in 1..Len(event_list) |->
        json_array([j \in 1..Len(event_list[i]) |-> Quote(event_list[i][j])])])

\* str(event_list), as print(event_list) writes it
py_repr(event_list) ==
    json_array([i \in 1..Len(event_list) |->
        "(" \o JoinFrom([j \in 1..Len(event_list[i]) |->
                            SingleQuote(event_list[i][j])], 1) \o ")"])

----------------------------------------------------------------------------
(* get_today_events *)

NoRecord == [exists |-> FALSE, timestamp |-> 0, event_list |-> <<>>]
NotAsked == [status |-> "not_asked", items |-> <<>>]

CalendarsGet == [method |-> "calendars.get", calendarId |-> "primary"]
EventsList(time_zone) ==
    [method |-> "events.list", calendarId |-> "primary", singleEvents |-> TRUE,
     orderBy |-> "startTime", timeZone |-> time_zone]
EventsInsert(body) ==
    [method |-> "events.insert", calendarId |-> "primary", body |-> body]

\* faulty variant of IsFresh: the record is still served at exactly CACHE_DURATION
IsFresh_inclusive(t, cache_data) == t - cache_data.timestamp <= CACHE_DURATION

\* time.time() - cache_data["timestamp"] < CACHE_DURATION
IsFresh(t, cache_data) == t - cache_data.timestamp < CACHE_DURATION

\* faulty variant of HitResult: a hit stamps the record with the time of the read
HitResult_refresh(t, pre) ==
    [hit |-> TRUE, wrote |-> FALSE, elapsed |-> 0,
     ret |-> Return(json_dumps(pre.event_list)), event_list |-> <<>>,
     cache |-> [pre EXCEPT !.timestamp = t],
     requests |-> <<>>,
     stdout |-> <<"Using cached data.">>,
     listed |-> NotAsked]

\* faulty variant of HitResult: a hit empties the stored list it has returned
HitResult_drain(t, pre) ==
    [hit |-> TRUE, wrote |-> FALSE, elapsed |-> 0,
     ret |-> Return(json_dumps(pre.event_list)), event_list |-> <<>>,
     cache |-> [pre EXCEPT !.event_list = <<>>],
     requests |-> <<>>,
     stdout |-> <<"Using cached data.">>,
     listed |-> NotAsked]

\* the cache record is fresh: print and return json.dumps(cache_data["event_list"])
HitResult(t, pre) ==
    [hit |-> TRUE, wrote |-> FALSE, elapsed |-> 0,
     ret |-> Return(json_dumps(pre.event_list)), event_list |-> <<>>,
     cache |-> pre,
     requests |-> <<>>,
     stdout |-> <<"Using cached data.">>,
     listed |-> NotAsked]

\* faulty variant of ExceptHttpError: the error is raised again
ExceptHttpError_reraise(f) ==
    [hit |-> FALSE, wrote |-> FALSE, elapsed |-> f.d,
     ret |-> Raise("HttpError"), event_list |-> f.event_list,
     cache |-> f.pre,
     requests |-> f.requests,
     stdout |-> Append(f.stdout, "An error occurred: HttpError"),
     listed |-> f.listed]

\* faulty variant of ExceptHttpError: the cache is written after the handler as well
ExceptHttpError_store(f) ==
    [hit |-> FALSE, wrote |-> TRUE, elapsed |-> f.d,
     ret |-> Return(json_dumps(f.event_list)), event_list |-> f.event_list,
     cache |-> [exists |-> TRUE, timestamp |-> f.t + f.d, event_list |-> f.event_list],
     requests |-> f.requests,
     stdout |-> Append(f.stdout, "An error occurred: HttpError"),
     listed |-> f.listed]

\* except HttpError as error: print, then return json.dumps(event_list)
ExceptHttpError(f) ==
    [hit |-> FALSE, wrote |-> FALSE, elapsed |-> f.d,
     ret |-> Return(json_dumps(f.event_list)), event_list |-> f.event_list,
     cache |-> f.pre,
     requests |-> f.requests,
     stdout |-> Append(f.stdout, "An error occurred: HttpError"),
     listed |-> f.listed]

\* if not events: print and return (None); the cache is not written
NoEvents(f) ==
    [hit |-> FALSE, wrote |-> FALSE, elapsed |-> f.d,
     ret |-> ReturnNone, event_list |-> f.event_list,
     cache |-> f.pre,
     requests |-> f.requests,
     stdout |-> Append(f.stdout, "No upcoming events found."),
     listed |-> f.listed]

\* an exception of the loop body that no handler catches leaves the function
Uncaught(f, exc) ==
    [hit |-> FALSE, wrote |-> FALSE, elapsed |-> f.d,
     ret |-> Raise(exc), event_list |-> f.event_list,
     cache |-> f.pre,
     requests |-> f.requests,
     stdout |-> f.stdout,
     listed |-> f.listed]

\* print(event_list), pickle.dump of the new record, return json.dumps(event_list)
StoreAndReturn(f) ==
    [hit |-> FALSE, wrote |-> TRUE, elapsed |-> f.d,
     ret |-> Return(json_dumps(f.event_list)), event_list |-> f.event_list,
     cache |-> [exists |-> TRUE, timestamp |-> f.t + f.d, event_list |-> f.event_list],
     requests |-> f.requests,
     stdout |-> Append(f.stdout, py_repr(f.event_list)),
     listed |-> f.listed]

\* the try block: metadata lookup, events listing, normalization, cache write.
\* t is the time of the cache check, d the seconds the remote calls take.
FetchResult(t, d, pre, cal, lst, tz) ==
    LET f0 == [t |-> t, d |-> d, pre |-> pre, event_list |-> <<>>,
               requests |-> <<CalendarsGet>>, stdout |-> <<>>, listed |-> NotAsked]
        f1 == [f0 EXCEPT !.requests = <<CalendarsGet, EventsList(cal.timeZone)>>,
                         !.stdout = <<"Getting today's events">>,
                         !.listed = lst]
        l == Loop(lst.items, 1, <<>>, tz)
    IN  IF cal.status = "HttpError" THEN ExceptHttpError(f0)
        ELSE IF lst.status = "HttpError" THEN ExceptHttpError(f1)
        ELSE IF Len(lst.items) = 0 THEN NoEvents(f1)
        ELSE IF l.exc # "" THEN Uncaught([f1 EXCEPT !.event_list = l.event_list], l.exc)
        ELSE StoreAndReturn([f1 EXCEPT !.event_list = l.event_list])

get_today_events(t, d, pre, cal, lst, tz) ==
    IF pre.exists /\ IsFresh(t, pre)
    THEN HitResult(t, pre)
    ELSE FetchResult(t, d, pre, cal, lst, tz)

----------------------------------------------------------------------------
(* add_event *)

\* faulty variant of add_event: a failed insert is tried a second time
add_event_retry(new_event, ins) ==
    LET event == to_dict(new_event)
    IN  IF ins.status = "ok"
        THEN [ret |-> ReturnNone,
              requests |-> <<EventsInsert(event)>>,
              stdout |-> <<"Event created: " \o ins.htmlLink>>]
        ELSE [ret |-> Raise(ins.status),
              requests |-> <<EventsInsert(event), EventsInsert(event)>>,
              stdout |-> <<>>]

\* convert, insert once, print the link; an error of insert is not caught
add_event(new_event, ins) ==
    LET event == to_dict(new_event)
    IN  IF ins.status = "ok"
        THEN [ret |-> ReturnNone,
              requests |-> <<EventsInsert(event)>>,
              stdout |-> <<"Event created: " \o ins.htmlLink>>]
        ELSE [ret |-> Raise(ins.status),
              requests |-> <<EventsInsert(event)>>,
              stdout |-> <<>>]

----------------------------------------------------------------------------
(* The state machine *)

NoCall ==
    [op |-> "none", t |-> 0, pre |-> NoRecord, arg |-> None,
     looked |-> "not_asked", listed |-> NotAsked, inserted |-> "not_asked",
     requests |-> <<>>, event_list |-> <<>>, ret |-> ReturnNone, stdout |-> <<>>]

Init ==
    /\ now = 0
    /\ cache_file = NoRecord
    /\ local_tz \in LocalZones
    /\ call = NoCall
    /\ served = [outputs |-> {}, reads |-> 0]
    /\ written_at = 0

\* the clock advances between calls
Tick(d) ==
    /\ now + d <= MaxTime
    /\ now' = now + d
    /\ call' = NoCall
    /\ UNCHANGED <<cache_file, local_tz, served, written_at>>

\* one call of get_today_events()
GetTodayEvents(d, cal, lst) ==
    /\ now + d <= MaxTime
    /\ \E r \in {get_today_events(now, d, cache_file, cal, lst, local_tz)} :
        /\ cache_file' = r.cache
        /\ now' = now + r.elapsed
        /\ call' = [op |-> "get_today_events", t |-> now, pre |-> cache_file,
                    arg |-> None,
                    looked |-> IF Len(r.requests) = 0 THEN "not_asked" ELSE cal.status,
                    listed |-> r.listed, inserted |-> "not_asked",
                    requests |-> r.requests, event_list |-> r.event_list,
                    ret |-> r.ret, stdout |-> r.stdout]
        /\ served' =
              IF r.wrote THEN [outputs |-> {}, reads |-> 0]
              ELSE IF r.hit
                   THEN [outputs |-> served.outputs \cup {r.ret.value},
                         reads |-> IF served.reads < 2 THEN served.reads + 1 ELSE 2]
                   ELSE served
        /\ written_at' = IF r.wrote THEN now + r.elapsed ELSE written_at
    /\ UNCHANGED local_tz

\* one call of add_event(Event(...))
AddEvent(args, ins) ==
    /\ \E r \in {add_event(Event(args.summary, args.location, args.description,
                                  args.start, args.end, args.attendees,
                                  args.timeZone), ins)} :
        call' = [op |-> "add_event", t |-> now, pre |-> cache_file,
                 arg |-> args, looked |-> "not_asked", listed |-> NotAsked,
                 inserted |-> ins.status,
                 requests |-> r.requests, event_list |-> <<>>,
                 ret |-> r.ret, stdout |-> r.stdout]
    /\ UNCHANGED <<now, cache_file, local_tz, served, written_at>>

Next ==
    \/ \E d \in TickSteps : Tick(d)
    \/ \E d \in FetchDelays, cal \in CalendarOutcomes, lst \in ListOutcomes :
          GetTodayEvents(d, cal, lst)
    \/ \E args \in EventArgs, ins \in InsertOutcomes : AddEvent(args, ins)

Spec == Init /\ [][Next]_vars

----------------------------------------------------------------------------
(* Vocabulary of the properties *)

IsGet == call.op = "get_today_events"
IsAdd == call.op = "add_event"

\* the call asked the calendar service nothing
NoRemoteCall == Len(call.requests) = 0

\* the age of the record the call found
Age == call.t - call.pre.timestamp

\* an HttpError came back from one of the call's remote requests
HttpErrorSeen ==
    IsGet /\ (call.looked = "HttpError" \/ call.listed.status = "HttpError")

\* both remote requests of the fetch succeeded
FetchSucceeded == IsGet /\ call.looked = "ok" /\ call.listed.status = "ok"

\* every event list the loop can leave behind, serialized
SerializedLists ==
    {json_dumps(Loop(SubAgenda(S), 1, <<>>, local_tz).event_list) :
        S \in SUBSET (1..Len(Agenda))}

----------------------------------------------------------------------------
(* C1: a call that finds a cache record serves it iff the record is less   *)
(* than 360 seconds old (at exactly 360 it is a miss), and a served call   *)
(* returns the stored list, serialized, without any request to the remote  *)
(* calendar service.                                                       *)
C1_ServedIffFresh ==
    (IsGet /\ call.pre.exists) =>
        /\ NoRemoteCall <=> (Age < 360)
        /\ NoRemoteCall => call.ret = Return(json_dumps(call.pre.event_list))

\* a record of 359 seconds, with events in it, is served
C1_Witness ==
    IsGet /\ call.pre.exists /\ Age = 359 /\ NoRemoteCall
        /\ Len(call.pre.event_list) = 2

(* C2 (as claimed): whenever a call misses the cache and both remote       *)
(* requests succeed, the cache record afterwards carries the current time  *)
(* and one triple per fetched event, also when no event was fetched.       *)
C2_OverwrittenOnEverySuccess ==
    FetchSucceeded =>
        /\ cache_file.exists
        /\ cache_file.timestamp = now
        /\ Len(cache_file.event_list) = Len(call.listed.items)

(* C3 (as claimed): when the listing returns no items the call returns the *)
(* JSON text of an empty list.                                             *)
C3_EmptyDayReturnsEmptyList ==
    (FetchSucceeded /\ Len(call.listed.items) = 0) => call.ret = Return("[]")

(* C4: when an HttpError comes back from a remote request of the fetch     *)
(* path, the call returns a serialized event list; it does not raise.      *)
C4_HttpErrorCaught ==
    HttpErrorSeen =>
        /\ call.ret.kind = "return"
        /\ ~call.ret.is_none
        /\ call.ret.value \in SerializedLists

\* the listing request fails after the metadata lookup succeeded
C4_Witness ==
    HttpErrorSeen /\ call.looked = "ok" /\ Len(call.requests) = 2

(* C5: all reads served from one cache record return the same text, and a  *)
(* served read leaves the record (timestamp and list) as it was.           *)
C5_ReadsAgree ==
    /\ Cardinality(served.outputs) <= 1
    /\ (IsGet /\ call.pre.exists /\ Age < 360) => cache_file = call.pre

\* a second read of a record, 359 seconds after its write
C5_Witness ==
    IsGet /\ call.pre.exists /\ Age = 359 /\ served.reads = 2
        /\ served.outputs = {call.ret.value}

(* C6: the wire record of an Event nests start and end with the event's    *)
(* timezone, maps each attendee address, in order, to an object with an    *)
(* email field (none when attendees was not supplied) and copies summary,  *)
(* location and description.                                               *)
C6_WireRecord ==
    IsAdd =>
        LET a == call.arg
            body == call.requests[1].body
            addresses == IF a.attendees.given THEN a.attendees.list ELSE <<>>
        IN  /\ body.start = [dateTime |-> a.start, timeZone |-> a.timeZone]
            /\ body.end = [dateTime |-> a.end, timeZone |-> a.timeZone]
            /\ Len(body.attendees) = Len(addresses)
            /\ \A i \in 1..Len(addresses) :
                    body.attendees[i] = [email |-> addresses[i]]
            /\ body.summary = a.summary
            /\ body.location = a.location
            /\ body.description = a.description

\* an event with two attendees and a timezone is converted
C6_Witness ==
    IsAdd /\ call.arg.attendees.given /\ Len(call.arg.attendees.list) = 2
        /\ call.arg.timeZone = "America/Los_Angeles"

\* an event constructed without attendees is converted
C6_WitnessNoAttendees ==
    IsAdd /\ ~call.arg.attendees.given

(* C7: a call of add_event sends exactly one insert request; when that     *)
(* request fails the error leaves the call and no link is printed.         *)
C7_OneInsertNoRetry ==
    IsAdd =>
        /\ Len(call.requests) = 1
        /\ call.requests[1].method = "events.insert"
        /\ call.inserted # "ok" =>
              /\ call.ret = Raise(call.inserted)
              /\ call.stdout = <<>>

\* the insert request fails with a service error
C7_Witness ==
    IsAdd /\ call.inserted = "HttpError"

(* C8 (as claimed): a non-empty listing of titled events yields one triple *)
(* per event, in the listing's order, for timed and for all-day events.    *)
C8_OneTriplePerEvent ==
    (FetchSucceeded /\ Len(call.listed.items) > 0
        /\ \A i \in 1..Len(call.listed.items) :
               "summary" \in DOMAIN call.listed.items[i]) =>
        /\ call.ret.kind = "return"
        /\ Len(call.event_list) = Len(call.listed.items)
        /\ \A i \in 1..Len(call.event_list) :
               call.event_list[i][3] = call.listed.items[i].summary

(* C9: the stored timestamp is the time of the last cache write, no read   *)
(* refreshes it; so no call made 360 seconds or more after the write is    *)
(* served from the record, and such a call asks the remote service.        *)
C9_NoSlidingExpiry ==
    /\ cache_file.exists => cache_file.timestamp = written_at
    /\ (IsGet /\ call.pre.exists /\ NoRemoteCall) =>
            call.t < written_at + 360
    /\ (IsGet /\ call.pre.exists /\ call.t >= call.pre.timestamp + 360) =>
            ~NoRemoteCall

\* a record that served reads is found expired and the remote service is asked
C9_Witness ==
    IsGet /\ call.pre.exists /\ Age = 360 /\ ~NoRemoteCall
        /\ served.reads = 2 /\ cache_file = call.pre

(* C10: when an HttpError interrupts the fetch path the cache record is    *)
(* what it was before the call and the returned list is empty.             *)
C10_ErrorLeavesCache ==
    HttpErrorSeen =>
        /\ cache_file = call.pre
        /\ call.ret = Return("[]")

\* the listing fails while an expired record with events is on disk
C10_Witness ==
    HttpErrorSeen /\ call.listed.status = "HttpError" /\ call.pre.exists
        /\ Len(call.pre.event_list) > 0

====
